---- MODULE Spec2Model ----
(***************************************************************************)
(* Model of s3storage.go: the S3Storage facade (Save, Open, Download,     *)
(* Exists, Delete) over an object-store backend.                           *)
(*                                                                         *)
(* The facade's own code (option resolution, content-type sniffing, error  *)
(* translation) is modelled statement by statement.  The collaborators it  *)
(* calls (s3.Client, manager.Uploader, manager.Downloader, io, net/http)   *)
(* are modelled by their contract: a backend call either takes effect and  *)
(* answers, or fails with an error and has no effect.                      *)
(*                                                                         *)
(* Sizes are scaled: the sniff window and the part sizes are a few bytes   *)
(* instead of 512 bytes and 5 MiB.                                         *)
(***************************************************************************)
EXTENDS Integers, Sequences, FiniteSets, TLC

\* ---------------------------------------------------------------- bounds

\* Scaled stand-in for the 512-byte sniff buffer (make([]byte, 512)).
SniffLen == 2
\* Scaled stand-in for u.PartSize = 5 * 1024 * 1024.
UploadPartSize == 2
\* Scaled stand-in for d.PartSize = 5 * 1024 * 1024.
DownloadPartSize == 2
\* Longest list of functional options passed to one Save.
MaxOpts == 2

\* ---------------------------------------------------------------- data

Keys == {"a/b.txt", "c.bin"}

\* The key used where one object is followed through long transfers.
OneKey == {"a/b.txt"}

Bucket == "bucket"

Min(a, b) == IF a < b THEN a ELSE b
Max(a, b) == IF a < b THEN b ELSE a

\* A stream of n bytes starting at value s, every offset a different byte,
\* so that a lost, duplicated or moved byte changes the sequence.
Ramp(n, s) == [i \in 1..n |-> (s + i - 1) % 256]

\* First byte values of the source streams: 0 starts a binary stream,
\* 97 ("a") starts a text stream.
Seeds == {0, 97}

\* The sizes of the round-trip property for one part size.
SizesFor(ps) == {0, 1, ps - 1, ps, ps + 1, 10 * ps}

\* Short streams, around the sniff window: empty, shorter than the window,
\* exactly the window, longer.
ShortStreams == {Ramp(n, s) : n \in 0 .. (SniffLen + 1), s \in Seeds}

\* Streams of the round-trip sizes, around the part sizes and many parts long.
SizedStreams ==
  {Ramp(n, 97) : n \in SizesFor(UploadPartSize) \cup SizesFor(DownloadPartSize)}

Streams == ShortStreams \cup SizedStreams

\* An empty stream and one longer than the sniff window.
TwoStreams == {Ramp(0, 97), Ramp(SniffLen + 1, 97)}

\* An io.Reader handed to Save: it yields data, then io.EOF, or, when
\* broken, a read error other than io.EOF.
ReadersOf(streams) == [data : streams, pos : {0}, broken : BOOLEAN]

Remaining(r) == SubSeq(r.data, r.pos + 1, Len(r.data))

\* bytes.NewReader(b)
BytesReader(b) == [data |-> b, pos |-> 0, broken |-> FALSE]

\* ---------------------------------------------------------------- errors

\* Causes: what a collaborator call returned.  api says whether errors.As
\* finds a smithy.APIError in the chain.
NoCause     == [type |-> "none",         api |-> FALSE, code |-> "",             message |-> ""]
NoSuchKey   == [type |-> "NoSuchKey",    api |-> TRUE,  code |-> "NoSuchKey",    message |-> "The specified key does not exist."]
NotFound    == [type |-> "NotFound",     api |-> TRUE,  code |-> "NotFound",     message |-> "Not Found"]
AccessDenied == [type |-> "AccessDenied", api |-> TRUE,  code |-> "AccessDenied", message |-> "Access Denied"]
Transport   == [type |-> "Transport",    api |-> FALSE, code |-> "",             message |-> "connection reset by peer"]
Canceled    == [type |-> "Canceled",     api |-> FALSE, code |-> "",             message |-> "context canceled"]
ReadErr     == [type |-> "ReadErr",      api |-> FALSE, code |-> "",             message |-> "read error"]
EOF         == [type |-> "EOF",          api |-> FALSE, code |-> "",             message |-> "EOF"]
ErrUnexpectedEOF == [type |-> "ErrUnexpectedEOF", api |-> FALSE, code |-> "",    message |-> "unexpected EOF"]

\* Failures a backend call can end in whatever the state of the store:
\* a rejected request, a network failure, the call's context cancelled.
Faults == {AccessDenied, Transport, Canceled}

\* err.Error() of a cause: an API error prints its code and its message.
ErrorText(c) == IF c.api THEN <<c.code, c.message>> ELSE <<c.message>>

\* Errors returned by the facade.
Nil         == [kind |-> "nil",         text |-> <<>>,                 cause |-> NoCause]
ErrNotFound == [kind |-> "ErrNotFound", text |-> <<"file not found">>, cause |-> NoCause]

\* fmt.Errorf(format + ": %w", args..., err): the text holds the format's
\* words, the arguments and err.Error(); Unwrap gives err.
Errorf(what, args, err) ==
  [kind |-> "wrapped", text |-> <<what>> \o args \o ErrorText(err), cause |-> err]

Mentions(e, word) == \E i \in 1..Len(e.text) : e.text[i] = word

\* ---------------------------------------------------------------- options

NoOptions == [ContentType |-> "", AutoContentType |-> FALSE]

WithContentType(ct) == [name |-> "WithContentType", ct |-> ct]

WithAutoContentType == [name |-> "WithAutoContentType", ct |-> ""]

\* Applying one functional option to the options struct.
ApplyOpt(opt, o) ==
  IF opt.name = "WithContentType"
    THEN [o EXCEPT !.ContentType = opt.ct]
    ELSE [o EXCEPT !.AutoContentType = TRUE]

RECURSIVE ApplyOpts(_, _)
\* for _, opt := range opts { opt(&options) }
ApplyOpts(opts, o) ==
  IF opts = <<>> THEN o ELSE ApplyOpts(Tail(opts), ApplyOpt(Head(opts), o))

\* The options a caller can pass: an explicit type, an explicitly empty
\* type, and the request to sniff.
OptChoices == {WithContentType("image/png"), WithContentType(""), WithAutoContentType}

OptLists == UNION {[1..n -> OptChoices] : n \in 0..MaxOpts}

\* ---------------------------------------------------------------- sniffing

\* io.ReadFull(r, buf) with len(buf) = n: reads until buf is full or the
\* reader fails; err is nil exactly when n bytes were read.
ReadFull(r, n) ==
  LET got == Min(Len(r.data) - r.pos, n)
  IN  [n   |-> got,
       buf |-> SubSeq(r.data, r.pos + 1, r.pos + got),
       err |-> IF got = n THEN NoCause
               ELSE IF r.broken THEN ReadErr
               ELSE IF got = 0 THEN EOF ELSE ErrUnexpectedEOF,
       r   |-> [r EXCEPT !.pos = r.pos + got]]

\* A byte that makes net/http treat the data as binary.
IsBinaryByte(b) ==
  \/ b <= 8
  \/ b = 11
  \/ (14 <= b /\ b <= 26)
  \/ (28 <= b /\ b <= 31)

\* http.DetectContentType, reduced to its last two rules: data without a
\* binary byte is text, anything else is application/octet-stream.  It
\* never returns the empty string.
DetectContentType(data) ==
  IF \E i \in 1..Len(data) : IsBinaryByte(data[i])
    THEN "application/octet-stream"
    ELSE "text/plain; charset=utf-8"

\* A sniffing condition that forgets the explicit type.
NeedSniff_AutoOnly(options) == options.AutoContentType

\* if options.ContentType == "" && options.AutoContentType
NeedSniff(options) == options.ContentType = "" /\ options.AutoContentType

\* A check that lets every read error pass as the end of the stream.
SniffFatal_Never(err) == FALSE

\* if err != nil { if err != io.ErrUnexpectedEOF && err != io.EOF { return
SniffFatal(err) == err # NoCause /\ err # ErrUnexpectedEOF /\ err # EOF

\* A body that forgets the sniffed prefix.
Rewrap_DropPrefix(rf) == <<rf.r>>

\* A body that puts back the whole buffer instead of buf[:n].
Rewrap_WholeBuffer(rf) ==
  <<BytesReader(rf.buf \o [i \in 1..(SniffLen - rf.n) |-> 0]), rf.r>>

\* r = io.MultiReader(bytes.NewReader(buf[:n]), r)
Rewrap(rf) == <<BytesReader(rf.buf), rf.r>>

\* The sniffing block of Save.  body is the reader handed on to the upload:
\* a list of readers read one after the other (io.MultiReader).
Sniff(r, options) ==
  IF ~NeedSniff(options)
    THEN [fatal |-> FALSE, err |-> NoCause, options |-> options,
          body |-> <<r>>, peeked |-> 0, sniffed |-> FALSE, rerr |-> NoCause]
    ELSE LET rf == ReadFull(r, SniffLen)
         IN  IF SniffFatal(rf.err)
               THEN [fatal |-> TRUE, err |-> rf.err, options |-> options,
                     body |-> <<rf.r>>, peeked |-> rf.n,
                     sniffed |-> TRUE, rerr |-> rf.err]
             ELSE IF rf.n > 0
               THEN [fatal |-> FALSE, err |-> NoCause,
                     options |-> [options EXCEPT !.ContentType = DetectContentType(rf.buf)],
                     body |-> Rewrap(rf), peeked |-> rf.n,
                     sniffed |-> TRUE, rerr |-> rf.err]
             ELSE [fatal |-> FALSE, err |-> NoCause, options |-> options,
                   body |-> <<rf.r>>, peeked |-> rf.n,
                   sniffed |-> TRUE, rerr |-> rf.err]

\* ---------------------------------------------------------------- body

RECURSIVE BodyBytes(_)
\* Every byte the body yields when read to its end.
BodyBytes(body) ==
  IF body = <<>> THEN <<>> ELSE Remaining(Head(body)) \o BodyBytes(Tail(body))

RECURSIVE BodyRead(_, _)
\* The uploader filling one part buffer of n bytes from the body: err is
\* nil when the buffer is full, EOF when the body ended first, the read
\* error when a reader failed.
BodyRead(body, n) ==
  IF n = 0 THEN [buf |-> <<>>, err |-> NoCause, body |-> body]
  ELSE IF body = <<>> THEN [buf |-> <<>>, err |-> EOF, body |-> body]
  ELSE LET rf == ReadFull(Head(body), n)
       IN  IF rf.err = NoCause \/ rf.err = ReadErr
             THEN [buf |-> rf.buf, err |-> rf.err, body |-> <<rf.r>> \o Tail(body)]
             ELSE LET more == BodyRead(Tail(body), n - rf.n)
                  IN  [buf |-> rf.buf \o more.buf, err |-> more.err, body |-> more.body]

\* ---------------------------------------------------------------- error translation

\* A translation that takes a cancelled upload for a finished one.
SaveError_IgnoreCanceled(path, err) ==
  IF err = NoCause \/ err = Canceled THEN Nil
  ELSE Errorf("couldn't upload file to", <<path, Bucket>>, err)

\* Save: the error returned for the result of s.uploader.Upload.
SaveError(path, err) ==
  IF err = NoCause THEN Nil
  ELSE IF err.api
    THEN Errorf("s3 upload failed for bucket, key, (AWS code)",
                <<Bucket, path, err.message, err.code>>, err)
    ELSE Errorf("couldn't upload file to", <<path, Bucket>>, err)

\* Save: the error returned when the sniffing read failed.
SniffError(err) ==
  Errorf("failed to read file header for content-type detection", <<>>, err)

\* A translation that looks for the HeadObject signal instead of NoSuchKey.
OpenError_WrongSignal(path, err) ==
  IF err = NoCause THEN Nil
  ELSE IF err.type = "NotFound" THEN ErrNotFound
  ELSE Errorf("failed to open from", <<path, Bucket>>, err)

\* Open: the error returned for the result of s.client.GetObject.
OpenError(path, err) ==
  IF err = NoCause THEN Nil
  ELSE IF err.type = "NoSuchKey" THEN ErrNotFound
  ELSE Errorf("failed to open from", <<path, Bucket>>, err)

\* A translation that takes a cancelled download for a finished one.
DownloadError_IgnoreCanceled(path, err) ==
  IF err = NoCause \/ err = Canceled THEN Nil
  ELSE IF err.type = "NoSuchKey" THEN ErrNotFound
  ELSE Errorf("failed to download from", <<path, Bucket>>, err)

\* Download: the error returned for the result of s.downloader.Download.
DownloadError(path, err) ==
  IF err = NoCause THEN Nil
  ELSE IF err.type = "NoSuchKey" THEN ErrNotFound
  ELSE Errorf("failed to download from", <<path, Bucket>>, err)

\* Exists: the boolean returned for the result of s.client.HeadObject.
ExistsValue(err) == err = NoCause

\* A translation that answers "false" to every failure.
ExistsError_Swallow(path, err) == Nil

\* Exists: the error returned for the result of s.client.HeadObject.
ExistsError(path, err) ==
  IF err = NoCause THEN Nil
  ELSE IF err.type = "NotFound" THEN Nil
  ELSE Errorf("failed to check existence of in", <<path, Bucket>>, err)

\* A translation that drops the error of DeleteObject.
DeleteError_Swallow(path, err) == Nil

\* A translation that turns "no such key" into ErrNotFound, as Open does.
DeleteError_MapsNotFound(path, err) ==
  IF err = NoCause THEN Nil
  ELSE IF err.type = "NoSuchKey" THEN ErrNotFound
  ELSE Errorf("couldn't delete file from", <<path, Bucket>>, err)

\* Delete: the error returned for the result of s.client.DeleteObject.
DeleteError(path, err) ==
  IF err = NoCause THEN Nil
  ELSE Errorf("couldn't delete file from", <<path, Bucket>>, err)

\* ---------------------------------------------------------------- state

VARIABLES
  store,   \* the bucket: the object stored under each key, if any
  pc,      \* where the call in progress stands: idle, upload, parts, download
  call,    \* the call in progress
  last,    \* what the last finished call returned; none while a call runs
  sink,    \* the io.WriterAt of the last Download
  saved    \* per key, the stream given to the Save that last succeeded

vars == <<store, pc, call, last, sink, saved>>

Absent == [present |-> FALSE, body |-> <<>>, ctype |-> ""]

Object(body, ctype) == [present |-> TRUE, body |-> body, ctype |-> ctype]

NoHandle == [open |-> FALSE, data |-> <<>>]

NoSaved == [some |-> FALSE, data |-> <<>>]

NoCall ==
  [op |-> "none", key |-> "", src |-> <<>>, explicit |-> "", auto |-> FALSE,
   peeked |-> 0,
   sniffed |-> FALSE, rerr |-> NoCause, ctype |-> "", handed |-> <<>>,
   body |-> <<>>, pending |-> <<>>, eof |-> FALSE, uploaded |-> <<>>,
   nparts |-> 0, absentBefore |-> FALSE, pos |-> 0, total |-> 0]

NoResult ==
  [op |-> "none", key |-> "", err |-> Nil, cause |-> NoCause, value |-> FALSE,
   handle |-> NoHandle, follows |-> "other", explicit |-> "", started |-> FALSE,
   committed |-> FALSE, size |-> 0, nparts |-> 0, absentBefore |-> FALSE,
   written |-> 0]

\* What the call that now finishes on key k comes directly after.
Follows(k) ==
  IF last.key = k /\ last.err = Nil /\ last.op = "Save" THEN "save_ok"
  ELSE IF last.key = k /\ last.err = Nil /\ last.op = "Delete" THEN "delete_ok"
  ELSE "other"

Init ==
  /\ store = [k \in Keys |-> Absent]
  /\ pc = "idle"
  /\ call = NoCall
  /\ last = NoResult
  /\ sink = <<>>
  /\ saved = [k \in Keys |-> NoSaved]

\* ---------------------------------------------------------------- Save

\* Save returns: the result of the call in progress c, ended by cause.
SaveResult(c, cause, err, started, committed) ==
  [NoResult EXCEPT
     !.op = "Save", !.key = c.key, !.err = err, !.cause = cause,
     !.explicit = c.explicit, !.size = Len(c.src), !.started = started, !.committed = committed, !.nparts = c.nparts,
     !.absentBefore = c.absentBefore]

\* The upload of the call in progress ends with cause (NoCause: the object
\* was committed), and Save returns.
UploadReturns(c, cause, committed) ==
  /\ last' = SaveResult(c, cause, SaveError(c.key, cause), TRUE, committed)
  /\ pc' = "idle"
  /\ call' = NoCall
  /\ sink' = <<>>

\* Save up to the call of s.uploader.Upload: resolve the options, sniff,
\* build the PutObjectInput.
SaveStart(k, r, opts) ==
  /\ pc = "idle"
  /\ LET options == ApplyOpts(opts, NoOptions)
         sn == Sniff(r, options)
         c == [NoCall EXCEPT
                 !.op = "Save", !.key = k, !.src = r.data,
                 !.explicit = options.ContentType,
                 !.auto = options.AutoContentType, !.peeked = sn.peeked,
                 !.sniffed = sn.sniffed, !.rerr = sn.rerr,
                 !.ctype = sn.options.ContentType,
                 !.handed = BodyBytes(sn.body), !.body = sn.body,
                 !.absentBefore = ~store[k].present]
     IN  IF sn.fatal
           THEN /\ last' = SaveResult(c, sn.err, SniffError(sn.err), FALSE, FALSE)
                /\ pc' = "idle"
                /\ call' = NoCall
           ELSE /\ pc' = "upload"
                /\ call' = c
                /\ last' = NoResult
  /\ sink' = <<>>
  /\ UNCHANGED <<store, saved>>

\* The uploader reads the first part.  A body shorter than one part is sent
\* with a single PutObject; a longer one opens a multipart upload.
UploadFirst ==
  /\ pc = "upload"
  /\ LET rd == BodyRead(call.body, UploadPartSize)
     IN  \/ /\ rd.err = ReadErr
            /\ UploadReturns(call, ReadErr, FALSE)
            /\ UNCHANGED <<store, saved>>
         \/ /\ rd.err = EOF
            /\ \/ /\ store' = [store EXCEPT ![call.key] = Object(rd.buf, call.ctype)]
                  /\ saved' = [saved EXCEPT ![call.key] = [some |-> TRUE, data |-> call.src]]
                  /\ UploadReturns([call EXCEPT !.nparts = 1], NoCause, TRUE)
               \/ \E f \in Faults :
                    /\ UploadReturns(call, f, FALSE)
                    /\ UNCHANGED <<store, saved>>
         \/ /\ rd.err = NoCause
            /\ \/ /\ pc' = "parts"
                  /\ call' = [call EXCEPT !.body = rd.body, !.pending = rd.buf]
                  /\ UNCHANGED <<last, sink>>
               \/ \E f \in Faults : UploadReturns(call, f, FALSE)
            /\ UNCHANGED <<store, saved>>

\* The worker sends the pending part; the uploader reads the next one.  A
\* failed part or a failed read aborts the multipart upload.
UploadPart ==
  /\ pc = "parts"
  /\ call.pending # <<>>
  /\ \/ \E f \in Faults : UploadReturns(call, f, FALSE)
     \/ LET c == [call EXCEPT !.uploaded = call.uploaded \o call.pending,
                              !.nparts = call.nparts + 1]
            rd == BodyRead(c.body, UploadPartSize)
        IN  IF c.eof
              THEN /\ call' = [c EXCEPT !.pending = <<>>]
                   /\ UNCHANGED <<pc, last, sink>>
            ELSE IF rd.err = ReadErr
              THEN UploadReturns(c, ReadErr, FALSE)
            ELSE /\ call' = [c EXCEPT !.body = rd.body, !.pending = rd.buf,
                                      !.eof = (rd.err = EOF)]
                 /\ UNCHANGED <<pc, last, sink>>
  /\ UNCHANGED <<store, saved>>

\* Every part was sent: CompleteMultipartUpload commits the object, or fails
\* and the upload is aborted.
UploadComplete ==
  /\ pc = "parts"
  /\ call.pending = <<>>
  /\ \/ /\ store' = [store EXCEPT ![call.key] = Object(call.uploaded, call.ctype)]
        /\ saved' = [saved EXCEPT ![call.key] = [some |-> TRUE, data |-> call.src]]
        /\ UploadReturns(call, NoCause, TRUE)
     \/ \E f \in Faults :
          /\ UploadReturns(call, f, FALSE)
          /\ UNCHANGED <<store, saved>>

\* ---------------------------------------------------------------- Download

\* w.WriteAt(b, off) on a sink that grows as needed; a gap is zero bytes.
WriteAt(w, off, b) ==
  [i \in 1..Max(Len(w), off + Len(b)) |->
     IF off < i /\ i <= off + Len(b) THEN b[i - off]
     ELSE IF i <= Len(w) THEN w[i] ELSE 0]

\* The bytes of a ranged GetObject: at most size bytes from offset start.
Range(body, start, size) == SubSeq(body, start + 1, Min(Len(body), start + size))

DownloadResult(k, cause, written) ==
  [NoResult EXCEPT
     !.op = "Download", !.key = k, !.err = DownloadError(k, cause),
     !.cause = cause, !.written = written]

DownloadReturns(k, cause, written) ==
  /\ last' = DownloadResult(k, cause, written)
  /\ pc' = "idle"
  /\ call' = NoCall

\* Download up to the downloader's first ranged read, which finds out
\* whether the object exists and how long it is.
DownloadStart(k) ==
  /\ pc = "idle"
  /\ \/ /\ ~store[k].present
        /\ sink' = <<>>
        /\ DownloadReturns(k, NoSuchKey, 0)
     \/ \E f \in Faults :
          /\ sink' = <<>>
          /\ DownloadReturns(k, f, 0)
     \/ /\ store[k].present
        /\ sink' = WriteAt(<<>>, 0, Range(store[k].body, 0, DownloadPartSize))
        /\ IF DownloadPartSize >= Len(store[k].body)
             THEN DownloadReturns(k, NoCause, 1)
             ELSE /\ pc' = "download"
                  /\ call' = [NoCall EXCEPT !.op = "Download", !.key = k,
                                            !.pos = DownloadPartSize,
                                            !.total = Len(store[k].body),
                                            !.nparts = 1]
                  /\ last' = NoResult
  /\ UNCHANGED <<store, saved>>

\* The worker reads the next range and writes it at its offset; a failed
\* read ends the download with what was written so far left in the sink.
DownloadPart ==
  /\ pc = "download"
  /\ call.pos < call.total
  /\ \/ \E f \in Faults :
          /\ DownloadReturns(call.key, f, call.nparts)
          /\ sink' = sink
     \/ /\ sink' = WriteAt(sink, call.pos,
                           Range(store[call.key].body, call.pos, DownloadPartSize))
        /\ IF call.pos + DownloadPartSize >= call.total
             THEN DownloadReturns(call.key, NoCause, call.nparts + 1)
             ELSE /\ call' = [call EXCEPT !.pos = call.pos + DownloadPartSize,
                                          !.nparts = call.nparts + 1]
                  /\ UNCHANGED <<pc, last>>
  /\ UNCHANGED <<store, saved>>

\* ---------------------------------------------------------------- Open, Exists, Delete

\* Open: the handle returned next to the error: resp.Body, or nil.
OpenHandle(err, body) ==
  IF err = NoCause THEN [open |-> TRUE, data |-> body] ELSE NoHandle

Open(k) ==
  /\ pc = "idle"
  /\ \E cause \in Faults \cup {IF store[k].present THEN NoCause ELSE NoSuchKey} :
       last' = [NoResult EXCEPT
                  !.op = "Open", !.key = k, !.err = OpenError(k, cause),
                  !.cause = cause,
                  !.handle = OpenHandle(cause, store[k].body)]
  /\ sink' = <<>>
  /\ UNCHANGED <<store, pc, call, saved>>

Exists(k) ==
  /\ pc = "idle"
  /\ \E cause \in Faults \cup {IF store[k].present THEN NoCause ELSE NotFound} :
       last' = [NoResult EXCEPT
                  !.op = "Exists", !.key = k, !.err = ExistsError(k, cause),
                  !.cause = cause, !.follows = Follows(k),
                  !.value = ExistsValue(cause)]
  /\ sink' = <<>>
  /\ UNCHANGED <<store, pc, call, saved>>

\* DeleteObject removes the object.  On a key without object the backend
\* answers success, or, for a backend that reports it, "no such key".
Delete(k) ==
  /\ pc = "idle"
  /\ \E cause \in Faults \cup {NoCause} \cup (IF store[k].present THEN {} ELSE {NoSuchKey}) :
       /\ last' = [NoResult EXCEPT
                     !.op = "Delete", !.key = k, !.err = DeleteError(k, cause),
                     !.cause = cause,
                     !.absentBefore = ~store[k].present]
       /\ IF cause = NoCause
            THEN /\ store' = [store EXCEPT ![k] = Absent]
                 /\ saved' = [saved EXCEPT ![k] = NoSaved]
            ELSE UNCHANGED <<store, saved>>
  /\ sink' = <<>>
  /\ UNCHANGED <<pc, call>>

\* ---------------------------------------------------------------- specification

\* Any sequence of calls on one key, with every stream.
Next ==
  \/ \E k \in OneKey, r \in ReadersOf(Streams), opts \in OptLists : SaveStart(k, r, opts)
  \/ UploadFirst
  \/ UploadPart
  \/ UploadComplete
  \/ \E k \in OneKey : DownloadStart(k)
  \/ DownloadPart
  \/ \E k \in OneKey : Open(k)
  \/ \E k \in OneKey : Exists(k)
  \/ \E k \in OneKey : Delete(k)

Spec == Init /\ [][Next]_vars

\* Any sequence of calls on two keys, with an empty and a non-empty stream.
NextKeys ==
  \/ \E k \in Keys, r \in ReadersOf(TwoStreams), opts \in OptLists : SaveStart(k, r, opts)
  \/ UploadFirst
  \/ UploadPart
  \/ UploadComplete
  \/ \E k \in Keys : DownloadStart(k)
  \/ DownloadPart
  \/ \E k \in Keys : Open(k)
  \/ \E k \in Keys : Exists(k)
  \/ \E k \in Keys : Delete(k)

SpecKeys == Init /\ [][NextKeys]_vars

TypeOK ==
  /\ pc \in {"idle", "upload", "parts", "download"}
  /\ \A k \in Keys : store[k].present \in BOOLEAN

\* ---------------------------------------------------------------- properties

Uploading == pc \in {"upload", "parts"}

\* C1: a Save with autoContentType and no explicit content type hands the
\* uploader a body that yields exactly the bytes of the source stream, in
\* order, whatever the length of the stream.
C1_SniffKeepsBytes ==
  (Uploading /\ call.auto /\ call.explicit = "") => call.handed = call.src

\* A stream longer than the sniff window was sniffed and handed on.
C1_Witness ==
  /\ pc = "upload"
  /\ call.auto /\ call.explicit = ""
  /\ call.peeked = SniffLen
  /\ Len(call.src) > SniffLen
  /\ call.handed = call.src

\* C2: when the resolved options carry a non-empty ContentType, no byte of
\* the source is read before the upload starts, Save never returns from the
\* sniffing block, and the content type given to the backend is the explicit
\* one.
C2_ExplicitWins ==
  /\ (Uploading /\ call.explicit # "") =>
        /\ call.peeked = 0
        /\ ~call.sniffed
        /\ call.ctype = call.explicit
  /\ (last.op = "Save" /\ last.explicit # "") =>
        /\ last.started
        /\ last.committed => store[last.key].ctype = last.explicit

\* An upload starts with an explicit type although sniffing was asked for.
C2_Witness ==
  /\ pc = "upload"
  /\ call.explicit = "image/png" /\ call.auto
  /\ Len(call.src) > 0
  /\ call.ctype = "image/png"

\* The backend answered the call (it did not reject it, the network held,
\* the context was not cancelled).
Answered == last.cause \notin Faults

\* C3: on a key without object, Open returns ErrNotFound and no handle,
\* Download returns ErrNotFound, Exists returns false and no error.
C3_MissingKey ==
  (last.op \in {"Open", "Download", "Exists"} /\ ~store[last.key].present /\ Answered) =>
     /\ last.op = "Open" => (last.err = ErrNotFound /\ last.handle = NoHandle)
     /\ last.op = "Download" => last.err = ErrNotFound
     /\ last.op = "Exists" => (last.value = FALSE /\ last.err = Nil)

\* Open on a missing key while the other key has an object.
C3_Witness ==
  /\ last.op = "Open"
  /\ ~store[last.key].present
  /\ \E k \in Keys : store[k].present
  /\ last.err = ErrNotFound

\* C4: a Save whose upload ends in a failure (a part, the finalize step or
\* the first request failed, or the context was cancelled) returns an error
\* and a key without object stays without; Save returns nil only when every
\* part was accepted and the object committed.
C4_AbortedUpload ==
  /\ (last.op = "Save" /\ last.cause # NoCause) =>
        /\ last.err # Nil
        /\ ~last.committed
        /\ last.absentBefore => ~store[last.key].present
  /\ (last.op = "Save" /\ last.err = Nil) =>
        /\ last.committed
        /\ store[last.key].present
        /\ store[last.key].body = saved[last.key].data
        /\ last.size = Len(saved[last.key].data)
        /\ last.nparts * UploadPartSize >= last.size

\* A Save of five parts or more, cancelled after two parts were accepted.
C4_Witness ==
  /\ last.op = "Save"
  /\ last.cause = Canceled
  /\ last.size >= 5 * UploadPartSize
  /\ last.nparts = 2
  /\ last.err # Nil
  /\ last.absentBefore /\ ~store[last.key].present

\* C5: a Download that succeeds on a key whose last successful Save stored a
\* stream fills the sink with exactly that stream, for every size.
C5_RoundTrip ==
  (last.op = "Download" /\ last.err = Nil /\ saved[last.key].some) =>
     sink = saved[last.key].data

\* The ten-part stream came back.
C5_Witness ==
  /\ last.op = "Download" /\ last.err = Nil
  /\ saved[last.key].some
  /\ Len(sink) = 10 * UploadPartSize
  /\ sink = saved[last.key].data

\* C6: an Exists that comes directly after a successful Save of the key and
\* returns no error returns true; one that comes directly after a
\* successful Delete of the key returns false.
C6_ExistsFollows ==
  /\ (last.op = "Exists" /\ last.follows = "save_ok" /\ last.err = Nil) => last.value = TRUE
  /\ (last.op = "Exists" /\ last.follows = "delete_ok") => last.value = FALSE

\* Exists answered true directly after a Save.
C6_Witness ==
  /\ last.op = "Exists" /\ last.follows = "save_ok"
  /\ last.err = Nil /\ last.value = TRUE

Recognized(op) ==
  IF op \in {"Open", "Download"} THEN {NoSuchKey}
  ELSE IF op = "Exists" THEN {NotFound}
  ELSE {}

\* The call ended because the backend call failed.
BackendFailed ==
  /\ last.op # "none"
  /\ last.cause # NoCause
  /\ last.op = "Save" => last.started

\* C8: a backend failure other than the recognized not-found signal gives
\* an error that is neither nil nor ErrNotFound, names the bucket and the
\* key, carries the backend's code and message and wraps the cause; only
\* Exists on not-found turns a failure into a result without error.
C8_NoFailureSwallowed ==
  /\ (BackendFailed /\ last.cause \notin Recognized(last.op)) =>
        /\ last.err.kind = "wrapped"
        /\ Mentions(last.err, Bucket) /\ Mentions(last.err, last.key)
        /\ Mentions(last.err, last.cause.message)
        /\ last.cause.api => Mentions(last.err, last.cause.code)
        /\ last.err.cause = last.cause
  /\ (last.cause # NoCause /\ last.err = Nil) =>
        (last.op = "Exists" /\ last.cause = NotFound /\ last.value = FALSE)

\* A Save was rejected by the backend with an API error.
C8_Witness ==
  /\ last.op = "Save" /\ last.started
  /\ last.cause = AccessDenied
  /\ last.err.kind = "wrapped"
  /\ Mentions(last.err, "AccessDenied")

\* C9: a read error in the sniff window other than the end of the stream
\* makes Save return the sniff-read failure without starting the upload;
\* the end of the stream does not, and when no byte was read the upload
\* starts without content type.
C9_SniffReadFailure ==
  /\ (Uploading /\ call.sniffed) =>
        /\ call.rerr \in {NoCause, EOF, ErrUnexpectedEOF}
        /\ call.peeked = 0 => call.ctype = ""
  /\ (last.op = "Save" /\ ~last.started) =>
        /\ last.cause = ReadErr
        /\ last.err = SniffError(ReadErr)
        /\ ~last.committed
        /\ last.absentBefore => ~store[last.key].present

\* Save returned the sniff-read failure.
C9_Witness ==
  /\ last.op = "Save" /\ ~last.started
  /\ last.err = SniffError(ReadErr)
  /\ ~store[last.key].present

\* C10: a Download in which a ranged read failed or the context was
\* cancelled returns an error, also with parts already in the sink; it
\* returns nil only when the sink holds every part at its offset; not-found
\* is reported with nothing written.
C10_AbortedDownload ==
  /\ (last.op = "Download" /\ last.cause # NoCause) => last.err # Nil
  /\ (last.op = "Download" /\ last.err = Nil) =>
        /\ store[last.key].present
        /\ sink = store[last.key].body
        /\ last.written * DownloadPartSize >= Len(sink)
  /\ (last.op = "Download" /\ last.err = ErrNotFound) =>
        (last.written = 0 /\ sink = <<>>)

\* A Download cancelled with two parts in the sink.
C10_Witness ==
  /\ last.op = "Download"
  /\ last.cause = Canceled
  /\ last.written = 2
  /\ Len(sink) = 2 * DownloadPartSize
  /\ last.err # Nil

====
